---- MODULE Spec2Model ----
(***************************************************************************)
(* The AssetTransferContract chaincode of yurixander/egn-project: the      *)
(* deployment / revocation / transaction-log contract of                   *)
(* node/src/revocationTransfer.ts and the earlier deployment contract of   *)
(* unnamed/part_000, over the flat key-value world state reached through   *)
(* ctx.stub (getState, putState, deleteState, getStateByRange).            *)
(*                                                                         *)
(* A record is the sequence of its <<field, value>> pairs in insertion     *)
(* order; a field whose value is a mapping is <<field, Object, mapping>>.  *)
(* A stored value is the text stringify(sortKeysRecursive(record)),        *)
(* modelled as the sequence of its tokens: field, value, field, value, ... *)
(* in the order the text lists them, a mapping between "{" and "}".  A key *)
(* that holds nothing reads as the empty buffer, the empty sequence.       *)
(*                                                                         *)
(* Deployment and Revoke call CreateAsset without await: the call runs to  *)
(* its first await (the getState of TransactionExists is issued) and the   *)
(* rest of it runs later, as a continuation of its own.  `pending` holds   *)
(* the continuations that have not run yet.                                *)
(*                                                                         *)
(* object, permuted and encoding belong to the specification of the        *)
(* encoding alone: an object, the same object with its fields inserted in  *)
(* another order, and the text a write path makes of the latter.           *)
(*                                                                         *)
(* A second replica (peer) executes the same transactions with the same    *)
(* arguments, with its own generateUniqueId results and its own timing of  *)
(* the continuations.                                                      *)
(***************************************************************************)
EXTENDS Integers, Sequences, FiniteSets, TLC

VARIABLES contract, ledger, stubCalls, pending, logAppend, lastOp, peer,
          object, permuted, encoding

vars == <<contract, ledger, stubCalls, pending, logAppend, lastOp, peer,
          object, permuted, encoding>>

(***************************************************************************)
(* Bounds and the argument values the transactions are invoked with.       *)
(***************************************************************************)
\* identifiers "1" .. ToString(NumIds) are passed as deploymentID / ID
NumIds == 2

Ids == {ToString(i) : i \in 1..NumIds}

Authors == {"A1", "A2"}

Texts == {"hello", "bad build"}

Payloads == {"payload"}

\* results generateUniqueId can return
GenIds == {"l68kq2zz0abc", "l68kq300xyz9"}

\* the keys InitLedger of part_000 writes its deployments under
SeedDeploymentIds == {"0000", "9999", "8888", "7777", "6666"}

\* the seeded deployments RevokeDeployment is invoked on
RevokedSeedIds == {"0000", "9999"}

Keys == Ids \cup {"1"} \cup SeedDeploymentIds \cup GenIds

\* the substrate's native key order (lexicographic), as getStateByRange("", "") yields it
KeyOrder ==
    <<"0000">> \o [i \in 1..NumIds |-> ToString(i)]
        \o <<"6666", "7777", "8888", "9999", "l68kq2zz0abc", "l68kq300xyz9">>

Contracts == {"revocationTransfer", "part_000"}

None == "-"

(***************************************************************************)
(* The module-level date: toDate(TIMESTAMP).                               *)
(***************************************************************************)
\* new Date((1659172409 + 567000000 / 1000000 / 1000) * 1000)
date == "Date(1659172409567)"

\* Date.prototype.toJSON, which stringify applies to a Date value
toJSON(v) == IF v = date THEN "2022-07-30T09:13:29.567Z" ELSE v

(***************************************************************************)
(* Canonical encoding: stringify(sortKeysRecursive(record)).               *)
(***************************************************************************)
\* code-point order of the field names the contracts use
FieldRank(f) ==
    CASE f = "RevocationID" -> 1
      [] f = "authorID" -> 2
      [] f = "comment" -> 3
      [] f = "deploymentID" -> 4
      [] f = "description" -> 5
      [] f = "payload" -> 6
      [] f = "reason" -> 7
      [] f = "revocationID" -> 8
      [] f = "targetDeploymentID" -> 9
      [] f = "time" -> 10
      [] f = "transactionID" -> 11

RECURSIVE InsertByKey(_, _)
InsertByKey(pair, obj) ==
    IF obj = <<>> THEN <<pair>>
    ELSE IF FieldRank(pair[1]) <= FieldRank(Head(obj)[1])
         THEN <<pair>> \o obj
         ELSE <<Head(obj)>> \o InsertByKey(pair, Tail(obj))

\* what stands for the value of a field that holds a mapping
Object == "[object Object]"

IsMapping(pair) == Len(pair) = 3

\* the fields in key order at the top level only
RECURSIVE sortKeysShallow(_)
sortKeysShallow(obj) ==
    IF obj = <<>> THEN <<>>
    ELSE InsertByKey(Head(obj), sortKeysShallow(Tail(obj)))

\* sort-keys-recursive: the fields in key order, at every level
RECURSIVE sortKeysRecursive(_)
sortKeysRecursive(obj) ==
    IF obj = <<>> THEN <<>>
    ELSE LET pair == Head(obj)
             sorted == IF IsMapping(pair)
                       THEN <<pair[1], Object, sortKeysRecursive(pair[3])>>
                       ELSE pair
         IN InsertByKey(sorted, sortKeysRecursive(Tail(obj)))

\* the text of the fields in the order given, each followed by its value, a
\* Date through toJSON, a mapping between braces
RECURSIVE Members(_)
Members(obj) ==
    IF obj = <<>> THEN <<>>
    ELSE LET pair == Head(obj)
         IN <<pair[1]>>
                \o (IF IsMapping(pair)
                    THEN <<"{">> \o Members(pair[3]) \o <<"}">>
                    ELSE <<toJSON(pair[2])>>)
                \o Members(Tail(obj))

\* json-stringify-deterministic: the fields in sorted key order at every level
stringify(obj) == Members(sortKeysRecursive(obj))

\* the members of the text from position i up to the closing brace (or the
\* end of the text), and the position after it
RECURSIVE ParseMembers(_, _)
ParseMembers(text, i) ==
    IF i > Len(text) THEN [obj |-> <<>>, next |-> i]
    ELSE IF text[i] = "}" THEN [obj |-> <<>>, next |-> i + 1]
    ELSE IF text[i + 1] = "{"
         THEN LET inner == ParseMembers(text, i + 2)
                  rest == ParseMembers(text, inner.next)
              IN [obj |-> << <<text[i], Object, inner.obj>> >> \o rest.obj,
                  next |-> rest.next]
         ELSE LET rest == ParseMembers(text, i + 2)
              IN [obj |-> << <<text[i], text[i + 1]>> >> \o rest.obj,
                  next |-> rest.next]

\* JSON.parse of a stored text: the object with the text's fields, in the
\* text's order
JSONparse(text) == ParseMembers(text, 1).obj

Undefined == "undefined"

\* record.field of a parsed record
Field(record, f) ==
    IF \E i \in 1..Len(record) : record[i][1] = f
    THEN LET i == CHOOSE j \in 1..Len(record) : record[j][1] = f IN record[i][2]
    ELSE Undefined

(***************************************************************************)
(* The world state behind ctx.stub.                                        *)
(***************************************************************************)
EmptyLedger == [k \in Keys |-> <<>>]

getState(l, key) == l[key]

putState(l, key, value) == [l EXCEPT ![key] = value]

deleteState(l, key) == [l EXCEPT ![key] = <<>>]

\* getStateByRange("", ""): the values of the keys that hold one, in key order
RECURSIVE ScanFrom(_, _)
ScanFrom(l, i) ==
    IF i > Len(KeyOrder) THEN <<>>
    ELSE (IF Len(l[KeyOrder[i]]) > 0 THEN <<l[KeyOrder[i]]>> ELSE <<>>)
             \o ScanFrom(l, i + 1)

getStateByRange(l) == ScanFrom(l, 1)

\* a call of ctx.stub, and the function of the contract that makes it
Get(by, key) == [fn |-> "getState", by |-> by, key |-> key, value |-> <<>>]

Put(by, key, value) == [fn |-> "putState", by |-> by, key |-> key, value |-> value]

Del(by, key) == [fn |-> "deleteState", by |-> by, key |-> key, value |-> <<>>]

\* the world state after the calls, issued in this order against l
RECURSIVE Replay(_, _)
Replay(l, calls) ==
    IF calls = <<>> THEN l
    ELSE LET c == Head(calls)
         IN Replay(CASE c.fn = "putState" -> putState(l, c.key, c.value)
                     [] c.fn = "deleteState" -> deleteState(l, c.key)
                     [] OTHER -> l,
                   Tail(calls))

(***************************************************************************)
(* node/src/revocationTransfer.ts: the read-only transactions.             *)
(***************************************************************************)
\* ValidateDeployment answering true whatever the key holds
ValidateDeploymentAlways(l, deploymentID) == TRUE

ValidateDeployment(l, deploymentID) ==
    LET deploymentJSON == getState(l, deploymentID)
    IN Len(deploymentJSON) > 0

\* TransactionExists answering false whatever the key holds
TransactionExistsNever(l, id) == FALSE

TransactionExists(l, id) ==
    LET transactionJSON == getState(l, id)
    IN Len(transactionJSON) > 0

ValidateRevocation(l, RevocationID) ==
    LET assetJSON == getState(l, RevocationID)
    IN Len(assetJSON) > 0

\* the stored text, or the error thrown
GetDeploymentByID(l, deploymentID) ==
    LET deploymentJSON == getState(l, deploymentID)
    IN IF Len(deploymentJSON) = 0
       THEN [error |-> "NotFound", value |-> <<>>]
       ELSE [error |-> None, value |-> deploymentJSON]

ReadAsset(l, id) ==
    LET transactionLogJSON == getState(l, id)
    IN IF Len(transactionLogJSON) = 0
       THEN [error |-> "NotFound", value |-> <<>>]
       ELSE [error |-> None, value |-> transactionLogJSON]

\* the records of the scan, kept when they pass the test of the loop body
RECURSIVE FilterByField(_, _)
FilterByField(values, f) ==
    IF values = <<>> THEN <<>>
    ELSE LET record == JSONparse(Head(values))
         IN (IF Field(record, f) # Undefined THEN <<record>> ELSE <<>>)
                \o FilterByField(Tail(values), f)

GetAllRevocations(l) == FilterByField(getStateByRange(l), "RevocationID")

GetAllTransactionLogs(l) == FilterByField(getStateByRange(l), "transactionID")

(***************************************************************************)
(* unnamed/part_000: GetAllRevocations pushes every record of the scan.    *)
(***************************************************************************)
RECURSIVE ParseAll(_)
ParseAll(values) ==
    IF values = <<>> THEN <<>>
    ELSE <<JSONparse(Head(values))>> \o ParseAll(Tail(values))

GetAllRevocationsPart000(l) == ParseAll(getStateByRange(l))

(***************************************************************************)
(* node/src/revocationTransfer.ts: the writing transactions, as functions  *)
(* of the world state l they run against.  Each yields the calls of        *)
(* ctx.stub it issued, in order, the world state they leave, the           *)
(* CreateAsset continuations it left un-awaited, and how its promise       *)
(* settled ("ok", or the error thrown).                                    *)
(***************************************************************************)
Settled(l, calls, unawaited, outcome) ==
    [ledger |-> Replay(l, calls), calls |-> calls, pending |-> unawaited,
     outcome |-> outcome]

\* InitLedger: the one example revocation, put under its RevocationID
InitLedgerRun(l) ==
    LET revocation == << <<"targetDeploymentID", "123">>,
                         <<"reason", "example">>,
                         <<"RevocationID", "1">> >>
    IN Settled(l, << Put("InitLedger", Field(revocation, "RevocationID"),
                         stringify(sortKeysRecursive(revocation))) >>,
               <<>>, "ok")

\* CreateAsset up to its first await: TransactionExists has issued its getState
CreateAssetCall(l, ID, authorID, time, description) ==
    [ID |-> ID, authorID |-> authorID, time |-> time,
     description |-> description, exists |-> TransactionExists(l, ID)]

\* CreateAsset filling transactionID and authorID with each other's argument
CreateAssetResumeSwapped(l, call) ==
    IF call.exists
    THEN Settled(l, <<>>, <<>>, "AlreadyExists")
    ELSE LET transactionLog == << <<"transactionID", call.authorID>>,
                                  <<"authorID", call.ID>>,
                                  <<"time", call.time>>,
                                  <<"description", call.description>> >>
         IN Settled(l, << Put("CreateAsset", call.ID,
                              stringify(sortKeysRecursive(transactionLog))) >>,
                    <<>>, "ok")

\* CreateAsset putting every log under the key of InitLedger's example
CreateAssetResumeFixedKey(l, call) ==
    IF call.exists
    THEN Settled(l, <<>>, <<>>, "AlreadyExists")
    ELSE LET transactionLog == << <<"transactionID", call.ID>>,
                                  <<"authorID", call.authorID>>,
                                  <<"time", call.time>>,
                                  <<"description", call.description>> >>
         IN Settled(l, << Put("CreateAsset", "1",
                              stringify(sortKeysRecursive(transactionLog))) >>,
                    <<>>, "ok")

\* CreateAsset from `const exists` on: throw, or put the transaction log
CreateAssetResume(l, call) ==
    IF call.exists
    THEN Settled(l, <<>>, <<>>, "AlreadyExists")
    ELSE LET transactionLog == << <<"transactionID", call.ID>>,
                                  <<"authorID", call.authorID>>,
                                  <<"time", call.time>>,
                                  <<"description", call.description>> >>
         IN Settled(l, << Put("CreateAsset", call.ID,
                              stringify(sortKeysRecursive(transactionLog))) >>,
                    <<>>, "ok")

\* CreateAsset invoked as a transaction of its own: the dispatcher awaits it
CreateAssetRun(l, ID, authorID, time, description) ==
    LET r == CreateAssetResume(l, CreateAssetCall(l, ID, authorID, time, description))
    IN [r EXCEPT !.calls = << Get("TransactionExists", ID) >> \o r.calls]

\* Deployment without its existence check: an upsert
DeploymentRunUpsert(l, authorID, comment, payload, deploymentID) ==
    LET deployment == << <<"deploymentID", deploymentID>>,
                         <<"comment", comment>>,
                         <<"authorID", authorID>>,
                         <<"payload", payload>> >>
        call == [ID |-> deploymentID, authorID |-> authorID, time |-> date,
                 description |-> comment, exists |-> Len(l[deploymentID]) > 0]
        value == stringify(sortKeysRecursive(deployment))
    IN [ledger |-> [l EXCEPT ![deploymentID] = value],
        calls |-> << Get("TransactionExists", deploymentID),
                     Put("Deployment", deploymentID, value) >>,
        pending |-> <<call>>, outcome |-> "ok"]

DeploymentRun(l, authorID, comment, payload, deploymentID) ==
    IF ValidateDeployment(l, deploymentID)
    THEN Settled(l, << Get("ValidateDeployment", deploymentID) >>, <<>>,
                 "AlreadyExists")
    ELSE LET deployment == << <<"deploymentID", deploymentID>>,
                              <<"comment", comment>>,
                              <<"authorID", authorID>>,
                              <<"payload", payload>> >>
             \* this.CreateAsset(...) with no await
             call == CreateAssetCall(l, deploymentID, authorID, date, comment)
         IN Settled(l, << Get("ValidateDeployment", deploymentID),
                          Get("TransactionExists", deploymentID),
                          Put("Deployment", deploymentID,
                              stringify(sortKeysRecursive(deployment))) >>,
                    <<call>>, "ok")

ReferenceError == "ReferenceError"

\* the revocation put under the deployment's key
RevocationKeyDeployment(deploymentID, id) == deploymentID

\* the revocation put under the generated id
RevocationKeyGenerated(deploymentID, id) == id

\* the first argument of Revoke's putState: the identifier `eploymentID` is
\* declared nowhere, so evaluating it throws
RevocationKey(deploymentID, id) == ReferenceError

RevokeRun(l, deploymentID, reason, authorID, id) ==
    IF ~ValidateDeployment(l, deploymentID)
    THEN Settled(l, << Get("ValidateDeployment", deploymentID) >>, <<>>, "NotFound")
    ELSE LET revocation == << <<"targetDeploymentID", deploymentID>>,
                              <<"reason", reason>>,
                              <<"revocationID", id>> >>
             \* this.CreateAsset(...) with no await
             call == CreateAssetCall(l, deploymentID, authorID, date, reason)
             key == RevocationKey(deploymentID, id)
         IN IF key = ReferenceError
            THEN Settled(l, << Get("ValidateDeployment", deploymentID),
                               Get("TransactionExists", deploymentID) >>,
                         <<call>>, ReferenceError)
            ELSE Settled(l, << Get("ValidateDeployment", deploymentID),
                               Get("TransactionExists", deploymentID),
                               Put("Revoke", key,
                                   stringify(sortKeysRecursive(revocation))),
                               Del("Revoke", deploymentID) >>,
                         <<call>>, "ok")

(***************************************************************************)
(* unnamed/part_000: the writing transactions.                             *)
(***************************************************************************)
SeedDeployments ==
    << [authorID |-> "1111", deploymentID |-> "0000", comment |-> "Hello", payload |-> "sodjfo"],
       [authorID |-> "2222", deploymentID |-> "9999", comment |-> "Hey", payload |-> "kajsnf"],
       [authorID |-> "3333", deploymentID |-> "8888", comment |-> "Hi", payload |-> "khklhl"],
       [authorID |-> "4444", deploymentID |-> "7777", comment |-> "Hola", payload |-> "nknjnk"],
       [authorID |-> "5555", deploymentID |-> "6666", comment |-> "Aloha", payload |-> "lrterw"] >>

RECURSIVE PutDeployments(_)
PutDeployments(assets) ==
    IF assets = <<>> THEN <<>>
    ELSE LET a == Head(assets)
             asset == << <<"authorID", a.authorID>>,
                         <<"deploymentID", a.deploymentID>>,
                         <<"comment", a.comment>>,
                         <<"payload", a.payload>> >>
         IN << Put("InitLedger", a.deploymentID,
                   stringify(sortKeysRecursive(asset))) >>
                \o PutDeployments(Tail(assets))

InitLedgerPart000Run(l) ==
    Settled(l, InitLedgerRun(l).calls \o PutDeployments(SeedDeployments), <<>>, "ok")

DeploymentPart000Run(l, authorID, comment, payload, deploymentID) ==
    IF ValidateDeployment(l, deploymentID)
    THEN Settled(l, << Get("ValidateDeployment", deploymentID) >>, <<>>,
                 "AlreadyExists")
    ELSE LET deployment == << <<"deploymentID", deploymentID>>,
                              <<"comment", comment>>,
                              <<"authorID", authorID>>,
                              <<"payload", payload>> >>
         IN Settled(l, << Get("ValidateDeployment", deploymentID),
                          Put("Deployment", deploymentID,
                              stringify(sortKeysRecursive(deployment))) >>,
                    <<>>, "ok")

RevokeDeploymentRun(l, deploymentID) ==
    IF ~ValidateDeployment(l, deploymentID)
    THEN Settled(l, << Get("ValidateDeployment", deploymentID) >>, <<>>, "NotFound")
    ELSE Settled(l, << Get("ValidateDeployment", deploymentID),
                       Del("RevokeDeployment", deploymentID) >>,
                 <<>>, "ok")

(***************************************************************************)
(* The state machine.  A transaction is dispatched to both replicas with   *)
(* the same arguments, once the CreateAsset calls the previous transaction *)
(* left un-awaited have run to their end: a transaction with all that it   *)
(* started is one unit of work, and units of work are serialized by the    *)
(* dispatcher.  Each replica runs the continuations at its own pace.       *)
(*                                                                         *)
(* lastOp records the transaction last dispatched: its arguments, the id   *)
(* generateUniqueId returned, how its promise settled, the world state it  *)
(* ran against (before), whether it changed the world state before it      *)
(* settled (changed), how many CreateAsset calls it left un-awaited        *)
(* (calls), whether the transaction dispatched just before it was a        *)
(* successful call of the same transaction with the same id (repeat), and  *)
(* whether it was a successful Deployment of the same id (created).        *)
(* logAppend is the state of the CreateAsset that lastOp left un-awaited:  *)
(* "none", "pending", "written", or the error it threw.  stubCalls lists   *)
(* the calls of ctx.stub that lastOp and its un-awaited CreateAsset have   *)
(* issued, in order.                                                       *)
(***************************************************************************)
NoOp ==
    [name |-> "none", id |-> None, authorID |-> None, text |-> None,
     payload |-> None, genId |-> None, outcome |-> None,
     before |-> EmptyLedger, changed |-> FALSE, calls |-> 0, repeat |-> FALSE,
     created |-> FALSE]

Op(name, id, authorID, text, payload, genId) ==
    [NoOp EXCEPT !.name = name, !.id = id, !.authorID = authorID,
                 !.text = text, !.payload = payload, !.genId = genId]

Init ==
    /\ contract \in Contracts
    /\ ledger = EmptyLedger
    /\ stubCalls = <<>>
    /\ pending = <<>>
    /\ logAppend = "none"
    /\ lastOp = NoOp
    /\ peer = [ledger |-> EmptyLedger, stubCalls |-> <<>>, pending |-> <<>>,
               genId |-> None, outcome |-> None]
    /\ object = <<>>
    /\ permuted = <<>>
    /\ encoding = <<>>

Quiescent == pending = <<>> /\ peer.pending = <<>>

\* the dispatcher runs the handler to the settlement of its promise: r on this
\* replica, rp on the peer; the calls the handler did not await stay behind
Dispatch(op, r, rp, peerGenId) ==
    /\ Quiescent
    /\ ledger' = r.ledger
    /\ stubCalls' = r.calls
    /\ pending' = r.pending
    /\ logAppend' = IF r.pending = <<>> THEN "none" ELSE "pending"
    /\ lastOp' = [op EXCEPT !.outcome = r.outcome,
                            !.before = ledger,
                            !.changed = r.ledger # ledger,
                            !.calls = Len(r.pending),
                            !.repeat = /\ lastOp.name = op.name
                                       /\ lastOp.id = op.id
                                       /\ lastOp.outcome = "ok",
                            !.created = /\ lastOp.name = "Deployment"
                                        /\ lastOp.id = op.id
                                        /\ lastOp.outcome = "ok"]
    /\ peer' = [ledger |-> rp.ledger, stubCalls |-> rp.calls,
                pending |-> rp.pending, genId |-> peerGenId,
                outcome |-> rp.outcome]
    /\ UNCHANGED <<contract, object, permuted, encoding>>

InitLedger ==
    /\ contract = "revocationTransfer"
    /\ Dispatch(Op("InitLedger", None, None, None, None, None),
                InitLedgerRun(ledger), InitLedgerRun(peer.ledger), None)

Deployment(authorID, comment, payload, deploymentID) ==
    /\ contract = "revocationTransfer"
    /\ Dispatch(Op("Deployment", deploymentID, authorID, comment, payload, None),
                DeploymentRun(ledger, authorID, comment, payload, deploymentID),
                DeploymentRun(peer.ledger, authorID, comment, payload, deploymentID),
                None)

\* id, peerId: what generateUniqueId returns on each replica
Revoke(deploymentID, reason, authorID, id, peerId) ==
    /\ contract = "revocationTransfer"
    /\ Dispatch(Op("Revoke", deploymentID, authorID, reason, None,
                   IF ValidateDeployment(ledger, deploymentID) THEN id ELSE None),
                RevokeRun(ledger, deploymentID, reason, authorID, id),
                RevokeRun(peer.ledger, deploymentID, reason, authorID, peerId),
                IF ValidateDeployment(peer.ledger, deploymentID) THEN peerId ELSE None)

CreateAsset(ID, authorID, description) ==
    /\ contract = "revocationTransfer"
    /\ Dispatch(Op("CreateAsset", ID, authorID, description, None, None),
                CreateAssetRun(ledger, ID, authorID, date, description),
                CreateAssetRun(peer.ledger, ID, authorID, date, description),
                None)

\* the un-awaited CreateAsset runs on from its first await
CreateAssetContinuation ==
    /\ pending # <<>>
    /\ LET r == CreateAssetResume(ledger, Head(pending))
       IN /\ ledger' = r.ledger
          /\ stubCalls' = stubCalls \o r.calls
          /\ logAppend' = IF r.outcome = "ok" THEN "written" ELSE r.outcome
    /\ pending' = Tail(pending)
    /\ UNCHANGED <<contract, lastOp, peer, object, permuted, encoding>>

PeerCreateAssetContinuation ==
    /\ peer.pending # <<>>
    /\ LET r == CreateAssetResume(peer.ledger, Head(peer.pending))
       IN peer' = [peer EXCEPT !.ledger = r.ledger,
                               !.stubCalls = peer.stubCalls \o r.calls,
                               !.pending = Tail(peer.pending)]
    /\ UNCHANGED <<contract, ledger, stubCalls, pending, logAppend, lastOp,
                   object, permuted, encoding>>

InitLedgerPart000 ==
    /\ contract = "part_000"
    /\ Dispatch(Op("InitLedger", None, None, None, None, None),
                InitLedgerPart000Run(ledger), InitLedgerPart000Run(peer.ledger), None)

DeploymentPart000(authorID, comment, payload, deploymentID) ==
    /\ contract = "part_000"
    /\ Dispatch(Op("Deployment", deploymentID, authorID, comment, payload, None),
                DeploymentPart000Run(ledger, authorID, comment, payload, deploymentID),
                DeploymentPart000Run(peer.ledger, authorID, comment, payload, deploymentID),
                None)

RevokeDeployment(deploymentID) ==
    /\ contract = "part_000"
    /\ Dispatch(Op("RevokeDeployment", deploymentID, None, None, None, None),
                RevokeDeploymentRun(ledger, deploymentID),
                RevokeDeploymentRun(peer.ledger, deploymentID), None)

Next ==
    \/ InitLedger
    \/ \E a \in Authors, c \in Texts, p \in Payloads, d \in Ids : Deployment(a, c, p, d)
    \/ \E d \in Ids, r \in Texts, a \in Authors, id \in GenIds, peerId \in GenIds :
           Revoke(d, r, a, id, peerId)
    \/ \E d \in Ids, a \in Authors, t \in Texts : CreateAsset(d, a, t)
    \/ CreateAssetContinuation
    \/ PeerCreateAssetContinuation
    \/ InitLedgerPart000
    \/ \E a \in Authors, c \in Texts, p \in Payloads, d \in Ids :
           DeploymentPart000(a, c, p, d)
    \/ \E d \in Ids \cup RevokedSeedIds : RevokeDeployment(d)

Spec == Init /\ [][Next]_vars

(***************************************************************************)
(* The encoding on its own: the objects the write paths build, and one     *)
(* with a nested mapping, encoded after their fields have been inserted in *)
(* any order at any level.                                                 *)
(***************************************************************************)
SampleRecords ==
    {<< <<"deploymentID", d>>, <<"comment", c>>, <<"authorID", a>>,
        <<"payload", p>> >> :
        d \in Ids, c \in Texts, a \in Authors, p \in Payloads}
    \cup {<< <<"transactionID", d>>, <<"authorID", a>>, <<"time", date>>,
             <<"description", c>> >> :
             d \in Ids, c \in Texts, a \in Authors}
    \cup {<< <<"transactionID", d>>,
             <<"description", Object, << <<"reason", c>>, <<"comment", c>>,
                                         <<"authorID", a>> >> >>,
             <<"authorID", a>> >> :
             d \in Ids, c \in Texts, a \in Authors}

Swap(obj, i) == [obj EXCEPT ![i] = obj[i + 1], ![i + 1] = obj[i]]

\* the object with two neighbouring fields, at some level, inserted the other
\* way round
RECURSIVE Reorderings(_)
Reorderings(obj) ==
    {Swap(obj, i) : i \in 1..(Len(obj) - 1)}
    \cup UNION {{[obj EXCEPT ![i] = <<obj[i][1], Object, inner>>] :
                    inner \in Reorderings(obj[i][3])} :
                i \in {j \in 1..Len(obj) : IsMapping(obj[j])}}

EncodingInit ==
    /\ contract = "revocationTransfer"
    /\ ledger = EmptyLedger
    /\ stubCalls = <<>>
    /\ pending = <<>>
    /\ logAppend = "none"
    /\ lastOp = NoOp
    /\ peer = [ledger |-> EmptyLedger, stubCalls |-> <<>>, pending |-> <<>>,
               genId |-> None, outcome |-> None]
    /\ object \in SampleRecords
    /\ permuted = object
    /\ encoding = <<>>

Reorder ==
    /\ permuted' \in Reorderings(permuted)
    /\ encoding' = <<>>
    /\ UNCHANGED <<contract, ledger, stubCalls, pending, logAppend, lastOp, peer,
                   object>>

\* Buffer.from(stringify(sortKeysRecursive(...))), as every putState is given it
Encode ==
    /\ encoding = <<>>
    /\ encoding' = stringify(sortKeysRecursive(permuted))
    /\ UNCHANGED <<contract, ledger, stubCalls, pending, logAppend, lastOp, peer,
                   object, permuted>>

EncodingNext == Reorder \/ Encode

EncodingSpec == EncodingInit /\ [][EncodingNext]_vars

(***************************************************************************)
(* The kinds of stored record, told apart by the field that names them.    *)
(***************************************************************************)
HasField(value, f) == Field(JSONparse(value), f) # Undefined

IsDeployment(value) == HasField(value, "deploymentID")

IsTransactionLog(value) == HasField(value, "transactionID")

HasRevocationId(record) ==
    \/ Field(record, "RevocationID") # Undefined
    \/ Field(record, "revocationID") # Undefined

\* the keys under which the last transaction left a transaction log that was
\* not there before it
NewLogKeys ==
    {k \in Keys : IsTransactionLog(ledger[k]) /\ ledger[k] # lastOp.before[k]}

\* the writes among the calls of ctx.stub
RECURSIVE Writes(_)
Writes(calls) ==
    IF calls = <<>> THEN <<>>
    ELSE (IF Head(calls).fn = "getState" THEN <<>> ELSE <<Head(calls)>>)
             \o Writes(Tail(calls))

\* the entries GetAllRevocations lists for a deployment
RevocationsOf(deploymentID) ==
    LET listed == GetAllRevocations(ledger)
    IN {i \in 1..Len(listed) : Field(listed[i], "targetDeploymentID") = deploymentID}

(***************************************************************************)
(* C1.  Create-if-absent: a Deployment call that directly follows a        *)
(* successful Deployment of the same id fails with "already exists" and    *)
(* leaves the keyspace as the first call left it.                          *)
(***************************************************************************)
C1_CreateIfAbsent ==
    (lastOp.name = "Deployment" /\ lastOp.repeat)
        => /\ lastOp.outcome = "AlreadyExists"
           /\ ~lastOp.changed
           /\ ledger = lastOp.before
           /\ Writes(stubCalls) = <<>>
           /\ lastOp.calls = 0

\* a second Deployment of the id, with another author, has been rejected
C1_Witness ==
    /\ contract = "revocationTransfer"
    /\ lastOp.name = "Deployment" /\ lastOp.repeat
    /\ lastOp.outcome = "AlreadyExists"
    /\ Field(JSONparse(lastOp.before[lastOp.id]), "authorID") # lastOp.authorID

(***************************************************************************)
(* C2.  Revoke-then-revoke: Revoke of a deployment that Deployment has     *)
(* just created succeeds and leaves no deployment record under the id; a   *)
(* Revoke that directly follows a successful Revoke of the same id fails   *)
(* with NotFound.                                                          *)
(***************************************************************************)
C2_RevokeOnce ==
    lastOp.name = "Revoke"
        => /\ lastOp.created
                => (lastOp.outcome = "ok" /\ ~IsDeployment(ledger[lastOp.id]))
           /\ lastOp.repeat => lastOp.outcome = "NotFound"

(***************************************************************************)
(* C3.  Audit completeness: a successful Deployment or Revoke leaves       *)
(* exactly one new TransactionLog record, with the operation's authorID    *)
(* and its comment / reason as description.                                *)
(***************************************************************************)
C3_AuditCompleteness ==
    (/\ contract = "revocationTransfer"
     /\ lastOp.name \in {"Deployment", "Revoke"}
     /\ lastOp.outcome = "ok")
        => /\ Cardinality(NewLogKeys) = 1
           /\ \A k \in NewLogKeys :
                  LET log == JSONparse(ledger[k])
                  IN /\ Field(log, "authorID") = lastOp.authorID
                     /\ Field(log, "description") = lastOp.text

(***************************************************************************)
(* C4.  Create-then-read: after a successful Deployment, with no other     *)
(* transaction in between, GetDeploymentByID(id) returns the Deployment    *)
(* record with exactly the fields of the create call.                      *)
(***************************************************************************)
C4_CreateThenRead ==
    (lastOp.name = "Deployment" /\ lastOp.outcome = "ok")
        => LET read == GetDeploymentByID(ledger, lastOp.id)
               record == JSONparse(read.value)
           IN /\ read.error = None
              /\ Len(record) = 4
              /\ Field(record, "deploymentID") = lastOp.id
              /\ Field(record, "authorID") = lastOp.authorID
              /\ Field(record, "comment") = lastOp.text
              /\ Field(record, "payload") = lastOp.payload

(***************************************************************************)
(* C5.  Revoke post-state: Revoke of a deployment that Deployment has just *)
(* created succeeds; afterwards ValidateDeployment(id) is false and        *)
(* GetAllRevocations() holds exactly one entry whose targetDeploymentID is *)
(* id.                                                                     *)
(***************************************************************************)
C5_RevokePostState ==
    (lastOp.name = "Revoke" /\ lastOp.created)
        => /\ lastOp.outcome = "ok"
           /\ ~ValidateDeployment(ledger, lastOp.id)
           /\ Cardinality(RevocationsOf(lastOp.id)) = 1

(***************************************************************************)
(* C6.  Revoke of a missing deployment fails with NotFound and changes     *)
(* nothing: no record is written and no log append is started.             *)
(***************************************************************************)
C6_RevokeMissing ==
    (lastOp.name = "Revoke" /\ lastOp.before[lastOp.id] = <<>>)
        => /\ lastOp.outcome = "NotFound"
           /\ ~lastOp.changed
           /\ ledger = lastOp.before
           /\ Writes(stubCalls) = <<>>
           /\ lastOp.calls = 0

\* a Revoke of an absent id has been rejected, in a keyspace that holds records
C6_Witness ==
    /\ lastOp.name = "Revoke"
    /\ lastOp.before[lastOp.id] = <<>>
    /\ lastOp.outcome = "NotFound"
    /\ \E k \in Keys : ledger[k] # <<>>

(***************************************************************************)
(* C7.  List filtering: every record GetAllRevocations() returns has a     *)
(* revocation identifier field, in both contracts.                         *)
(***************************************************************************)
C7_ListFiltering ==
    LET listed == IF contract = "part_000"
                  THEN GetAllRevocationsPart000(ledger)
                  ELSE GetAllRevocations(ledger)
    IN \A i \in 1..Len(listed) : HasRevocationId(listed[i])

(***************************************************************************)
(* C8.  TransactionLog permanence: a key that holds a TransactionLog       *)
(* record holds the same record after every step.                          *)
(***************************************************************************)
C8_LogPermanence ==
    [][\A k \in Keys : IsTransactionLog(ledger[k]) => ledger'[k] = ledger[k]]_vars

(***************************************************************************)
(* C9.  Logging failure fails the revocation: when the CreateAsset that    *)
(* Revoke calls has failed, Revoke has failed too, and neither the         *)
(* Revocation write nor the Deployment delete has taken effect.            *)
(***************************************************************************)
C9_LoggingFailureFailsRevoke ==
    (lastOp.name = "Revoke" /\ logAppend = "AlreadyExists")
        => /\ lastOp.outcome # "ok"
           /\ ~lastOp.changed
           /\ ledger = lastOp.before
           /\ Writes(stubCalls) = <<>>

\* the log append of a Revoke of an existing deployment has failed
C9_Witness ==
    /\ lastOp.name = "Revoke"
    /\ lastOp.created
    /\ lastOp.calls = 1
    /\ logAppend = "AlreadyExists"

OwnPuts(by) ==
    {i \in 1..Len(stubCalls) : stubCalls[i].fn = "putState" /\ stubCalls[i].by = by}

(***************************************************************************)
(* C11.  Revocation key freshness: a Revoke that passed its existence      *)
(* check and generated its identifier succeeds, and writes the Revocation  *)
(* record once, under the generated identifier, a key that held nothing    *)
(* before the Revoke.                                                      *)
(***************************************************************************)
C11_RevocationKeyFresh ==
    (lastOp.name = "Revoke" /\ lastOp.created /\ lastOp.genId # None)
        => /\ lastOp.outcome = "ok"
           /\ Cardinality(OwnPuts("Revoke")) = 1
           /\ \A i \in OwnPuts("Revoke") :
                  /\ stubCalls[i].key = lastOp.genId
                  /\ lastOp.before[stubCalls[i].key] = <<>>

(***************************************************************************)
(* C12.  CreateAsset is create-if-absent: called on a key that holds a     *)
(* value of any kind it fails with "already exists" and leaves the         *)
(* keyspace as it was; called on an absent key it writes the record        *)
(* {transactionID, authorID, time, description} under that key and nothing *)
(* else.  The same holds of the CreateAsset that Deployment and Revoke     *)
(* call, by what the key held when they called it.                         *)
(***************************************************************************)
C12_LogRecord ==
    << "authorID", lastOp.authorID, "description", lastOp.text,
       "time", "2022-07-30T09:13:29.567Z", "transactionID", lastOp.id >>

C12_AppendLogCreateIfAbsent ==
    /\ lastOp.name = "CreateAsset"
           => IF lastOp.before[lastOp.id] # <<>>
              THEN /\ lastOp.outcome = "AlreadyExists"
                   /\ ledger = lastOp.before
                   /\ Writes(stubCalls) = <<>>
              ELSE /\ lastOp.outcome = "ok"
                   /\ ledger = [lastOp.before EXCEPT ![lastOp.id] = C12_LogRecord]
    /\ logAppend = "AlreadyExists"
           => /\ lastOp.before[lastOp.id] # <<>>
              /\ OwnPuts("CreateAsset") = {}
    /\ logAppend = "written"
           => /\ lastOp.before[lastOp.id] = <<>>
              /\ ledger = [lastOp.before EXCEPT ![lastOp.id] = C12_LogRecord]

\* CreateAsset has been rejected on a key that holds a record that is not a log
C12_Witness ==
    /\ lastOp.name = "CreateAsset"
    /\ lastOp.outcome = "AlreadyExists"
    /\ lastOp.before[lastOp.id] # <<>>
    /\ ~IsTransactionLog(lastOp.before[lastOp.id])

C14_RevocationKeys ==
    {k \in Keys :
        LET record == JSONparse(ledger[k])
        IN /\ lastOp.genId \in {Field(record, "revocationID"),
                                Field(record, "RevocationID")}
           /\ Field(record, "targetDeploymentID") = lastOp.id
           /\ Field(record, "reason") = lastOp.text}

(***************************************************************************)
(* C14.  Revocation records are permanent: from the moment a Revoke that   *)
(* passed its existence check has settled, through the steps that follow   *)
(* it, the keyspace holds a record with its revocation identifier, its     *)
(* targetDeploymentID and its reason.                                      *)
(***************************************************************************)
C14_RevocationPermanence ==
    (lastOp.name = "Revoke" /\ lastOp.created /\ lastOp.genId # None)
        => C14_RevocationKeys # {}

(***************************************************************************)
(* C15.  Deployments are never updated in place: a key that holds a        *)
(* Deployment record holds the identical record, or nothing, after every   *)
(* step.                                                                   *)
(***************************************************************************)
C15_NoUpdateInPlace ==
    [][contract = "revocationTransfer"
           => \A k \in Keys :
                  IsDeployment(ledger[k])
                      => (ledger'[k] = ledger[k] \/ ledger'[k] = <<>>)]_vars

(***************************************************************************)
(* C16.  No interleaving inside a unit of work: when Deployment or Revoke  *)
(* has returned, the CreateAsset it called has run to its end, and every   *)
(* call of ctx.stub made for the log append (the getState of               *)
(* TransactionExists, the putState of CreateAsset) was issued before the   *)
(* operation's own putState or deleteState.                                *)
(***************************************************************************)
C16_NoInterleaving ==
    (contract = "revocationTransfer" /\ lastOp.name \in {"Deployment", "Revoke"})
        => /\ pending = <<>>
           /\ \A i, j \in 1..Len(stubCalls) :
                  (/\ stubCalls[i].by \in {"TransactionExists", "CreateAsset"}
                   /\ stubCalls[j].by \in {"Deployment", "Revoke"})
                      => i < j

KindOf(value) ==
    CASE IsDeployment(value) -> "Deployment"
      [] HasRevocationId(JSONparse(value)) -> "Revocation"
      [] IsTransactionLog(value) -> "TransactionLog"
      [] OTHER -> "none"

\* the value of the identifying field of a stored record
IdentifierOf(value) ==
    LET stored == JSONparse(value)
    IN CASE IsDeployment(value) -> Field(stored, "deploymentID")
         [] Field(stored, "RevocationID") # Undefined -> Field(stored, "RevocationID")
         [] Field(stored, "revocationID") # Undefined -> Field(stored, "revocationID")
         [] IsTransactionLog(value) -> Field(stored, "transactionID")
         [] OTHER -> Undefined

(***************************************************************************)
(* C18.  Key equals identifying field: every stored record is of one of    *)
(* the three kinds and carries its key in its identifying field, and no    *)
(* key that holds a record of one kind is the identifier of a stored       *)
(* record of another kind.                                                 *)
(***************************************************************************)
C18_KeyIsIdentifier ==
    \A k \in Keys :
        ledger[k] # <<>>
            => /\ KindOf(ledger[k]) # "none"
               /\ IdentifierOf(ledger[k]) = k
               /\ \A other \in Keys :
                      (ledger[other] # <<>> /\ IdentifierOf(ledger[other]) = k)
                          => KindOf(ledger[other]) = KindOf(ledger[k])

\* a Revocation and a TransactionLog are stored, the log left by the
\* CreateAsset of a Deployment
C18_Witness ==
    /\ lastOp.name = "Deployment"
    /\ logAppend = "written"
    /\ \E k1, k2 \in Keys :
           /\ KindOf(ledger[k1]) = "Revocation"
           /\ KindOf(ledger[k2]) = "TransactionLog"

(***************************************************************************)
(* C19.  Revoke write ordering: a Revoke that passed its existence check   *)
(* and whose calls have all run to their end has written the               *)
(* TransactionLog, then the Revocation record, then deleted the            *)
(* Deployment, and the deployment's key holds no Deployment record.        *)
(***************************************************************************)
C19_RevokeWriteOrder ==
    (/\ lastOp.name = "Revoke"
     /\ lastOp.created
     /\ lastOp.genId # None
     /\ pending = <<>>)
        => /\ \E i, j, k \in 1..Len(stubCalls) :
                  /\ i < j
                  /\ j < k
                  /\ stubCalls[i].fn = "putState"
                  /\ stubCalls[i].by = "CreateAsset"
                  /\ stubCalls[j].fn = "putState"
                  /\ stubCalls[j].by = "Revoke"
                  /\ stubCalls[k].fn = "deleteState"
                  /\ stubCalls[k].key = lastOp.id
           /\ ~IsDeployment(ledger[lastOp.id])

\* the keys the last transaction may change: its id and, for Revoke, the key
\* of the Revocation record
C20_Frame ==
    {lastOp.id} \cup (IF lastOp.name = "Revoke" THEN {lastOp.genId} ELSE {})

(***************************************************************************)
(* C20.  Frame of the mutating operations: after Deployment, CreateAsset,  *)
(* RevokeDeployment or Revoke, and after the calls they left behind, every *)
(* key other than the operation's id (and, for Revoke, the key of the      *)
(* Revocation record) holds what it held before, on success and failure.   *)
(***************************************************************************)
C20_FrameOfMutations ==
    lastOp.name \in {"Deployment", "CreateAsset", "RevokeDeployment", "Revoke"}
        => \A k \in Keys \ C20_Frame : ledger[k] = lastOp.before[k]

\* an operation has changed the key of its id in a keyspace that holds other
\* records
C20_Witness ==
    /\ lastOp.name \in {"Deployment", "CreateAsset", "RevokeDeployment"}
    /\ lastOp.outcome = "ok"
    /\ ledger[lastOp.id] # lastOp.before[lastOp.id]
    /\ \E k \in Keys \ C20_Frame : ledger[k] # <<>>

====
